---------------------------- MODULE Spec2Model ----------------------------
(***************************************************************************)
(* Model of parts of RLgraph:                                              *)
(*   - RayWorker (rlgraph/execution/ray/ray_worker.py): the rollout worker *)
(*     that drives a vectorized environment over repeated collect calls,   *)
(*     specification Spec;                                                 *)
(*   - VTraceFunction (rlgraph/components/helpers/v_trace_function.py):    *)
(*     the V-trace value/advantage recurrence, specification VSpec;        *)
(*   - the set-up functions get_optimizer_from_device_strategy and         *)
(*     parse_update_spec (rlgraph/utils/input_parsing.py) and the          *)
(*     constructor of NNOutputCleanup                                      *)
(*     (yarl/components/distributions/nn_output_cleanup.py),               *)
(*     specification SetupSpec.                                            *)
(* Python lists are sequences (index 1 is Python's index 0); per-          *)
(* environment lists are functions over Envs == 0..num_environments-1.     *)
(* Real numbers are exact rationals <<numerator, denominator>>.            *)
(***************************************************************************)
EXTENDS Integers, Sequences, FiniteSets, TLC

(***************************************************************************)
(* Bounds of the model.                                                    *)
(***************************************************************************)
MaxEnvs == 2
MaxCalls == 2
MaxTimesteps == 6
MaxT == 3
MaxRecords == 10
MaxNStep == 4
MaxInterval == 4
MaxCategories == 3

(***************************************************************************)
(* Exact rational arithmetic.                                              *)
(***************************************************************************)
Abs(x) == IF x < 0 THEN -x ELSE x

RECURSIVE Gcd(_, _)
Gcd(a, b) == IF b = 0 THEN a ELSE Gcd(b, a % b)

Norm(n, d) ==
    LET g == Gcd(Abs(n), Abs(d))
        s == IF d < 0 THEN -1 ELSE 1
    IN  <<(s * n) \div g, (s * d) \div g>>

Rat(n) == <<n, 1>>
\* Sums are formed over the least common denominator.
Lcd(x, y) == (x[2] \div Gcd(x[2], y[2])) * y[2]
RAdd(x, y) ==
    LET d == Lcd(x, y)
    IN  Norm(x[1] * (d \div x[2]) + y[1] * (d \div y[2]), d)
RSub(x, y) ==
    LET d == Lcd(x, y)
    IN  Norm(x[1] * (d \div x[2]) - y[1] * (d \div y[2]), d)
RMul(x, y) == Norm(x[1] * y[1], x[2] * y[2])
RLeq(x, y) == x[1] * y[2] <= y[1] * x[2]
RMin(x, y) == IF RLeq(x, y) THEN x ELSE y
RAbs(x) == <<Abs(x[1]), x[2]>>

RECURSIVE RPow(_, _)
RPow(x, j) == IF j = 0 THEN Rat(1) ELSE RMul(x, RPow(x, j - 1))

(***************************************************************************)
(* Sequence helpers (Python list operations).                              *)
(***************************************************************************)
Reverse(s) == [k \in 1..Len(s) |-> s[Len(s) + 1 - k]]

AnyTrue(f) == \E k \in DOMAIN f : f[k]

\* Python's arr[:n] after "del arr[n:]", for any integer n (a negative n
\* counts from the end of the list).
DelFrom(arr, n) ==
    LET keep == IF n >= 0
                THEN (IF n < Len(arr) THEN n ELSE Len(arr))
                ELSE (IF Len(arr) + n > 0 THEN Len(arr) + n ELSE 0)
    IN  SubSeq(arr, 1, keep)

\* Python's arr[1:].
Rest(arr) == IF Len(arr) = 0 THEN <<>> ELSE Tail(arr)

\* A local name that has not been assigned yet.
Unbound == <<>>

(***************************************************************************)
(* The rollout worker.                                                     *)
(***************************************************************************)
VARIABLES
    \* worker configuration (constructor arguments)
    num_environments, n_step_adjustment, worker_frameskip,
    worker_computes_weights,
    \* collaborators: the vectorized environment and the agent
    ep_len, vector_env, agent_resets, agent_updates,
    \* persistent worker fields (self.*)
    last_states, last_terminals, last_ep_rewards, last_ep_timesteps,
    episode_rewards, episode_timesteps, total_worker_steps,
    episodes_executed, sample_steps, sample_env_frames,
    \* execute_and_get_timesteps: arguments, locals and position
    pc, num_timesteps, max_timesteps_per_episode, break_on_terminal,
    timesteps_executed, l_episodes_executed, env_frames,
    sample_states, sample_actions, sample_rewards, sample_terminals,
    break_loop, next_states, env_states, l_episode_rewards,
    l_episode_timesteps, terminals,
    \* the value returned (or the exception raised) by the last call; the
    \* number of calls made, the timesteps they asked for and the
    \* timesteps_executed they reported
    sample, calls, requested, reported,
    \* V-trace: inputs, thresholds and outputs of one evaluation
    vt,
    \* _process_sample_if_necessary called on its own: the five arrays passed
    \* and what the call returned
    ps,
    \* a set-up function called on its own: its name, its arguments and its
    \* outcome
    cf

cfgVars == <<num_environments, n_step_adjustment, worker_frameskip,
             worker_computes_weights, ep_len>>
selfVars == <<last_states, last_terminals, last_ep_rewards, last_ep_timesteps,
              episode_rewards, episode_timesteps, total_worker_steps,
              episodes_executed, sample_steps, sample_env_frames>>
argVars == <<num_timesteps, max_timesteps_per_episode, break_on_terminal>>
localVars == <<timesteps_executed, l_episodes_executed, env_frames,
               sample_states, sample_actions, sample_rewards, sample_terminals,
               break_loop, next_states, env_states, l_episode_rewards,
               l_episode_timesteps, terminals>>
workerVars == <<cfgVars, vector_env, agent_resets, agent_updates, selfVars, pc,
                argVars, localVars, sample, calls, requested, reported>>
vars == <<workerVars, vt, ps, cf>>

Envs == 0 .. (num_environments - 1)

NStepSet == {1, 2}
FrameskipSet == {1, 2}
EpLenSet == {2, 3}
MaxPerEpisodeSet == {0, 2}
NumTimestepsSet == (0 - 1) .. MaxTimesteps

\* agent_config.get("discount", 0.99), configured as 0.9
discount == <<9, 10>>
SMALL_NUMBER == <<1, 1000000>>

(***************************************************************************)
(* The vectorized environment: environment i runs episodes of the fixed    *)
(* length ep_len[i] and pays the same reward at every step.  pos[i] is the *)
(* number of steps taken in the running episode.  An environment stepped   *)
(* after its terminal without a reset begins its next episode.             *)
(***************************************************************************)
Obs(i, p) == <<i, p>>
ZeroState == <<0 - 1, 0>>
StepReward(i) == i + 1

EnvResetAll == [i \in Envs |-> 0]

EnvReset(env, i) == [env EXCEPT ![i] = 0]

EnvObs(env) == [i \in Envs |-> Obs(i, env[i])]

\* vector_env.step(actions): (the environment after the step, next_states,
\* step_rewards, terminals)
EnvStep(env) ==
    LET nxt == [i \in Envs |-> IF env[i] >= ep_len[i] THEN 1 ELSE env[i] + 1]
    IN  [env |-> nxt,
         next_states |-> EnvObs(nxt),
         step_rewards |-> [i \in Envs |-> StepReward(i)],
         terminals |-> [i \in Envs |-> nxt[i] >= ep_len[i]]]

(***************************************************************************)
(* The agent: a deterministic policy, its state preprocessing, and the     *)
(* per-item loss of update().                                              *)
(***************************************************************************)
Preprocess(s) == <<s[1], s[2], 1>>
Policy(s) == (s[1] + s[2]) % 2
LossPerItem(reward) == RSub(Rat(1), reward)

\* ray_compress(state)
RayCompress(s) == [lz4 |-> s]

(***************************************************************************)
(* RayWorker.__init__                                                      *)
(***************************************************************************)
\* "env_".format(i): the format string has no replacement field, so the
\* argument is dropped.
EnvIdFormat(i) == <<"env_">>

env_ids == [i \in Envs |-> EnvIdFormat(i)]

EnvIdKeys == {env_ids[i] : i \in Envs}

NoSample == [kind |-> "none"]

IdleLocals ==
    /\ timesteps_executed = 0
    /\ l_episodes_executed = Unbound
    /\ env_frames = 0
    /\ sample_states = Unbound
    /\ sample_actions = Unbound
    /\ sample_rewards = Unbound
    /\ sample_terminals = Unbound
    /\ break_loop = FALSE
    /\ next_states = Unbound
    /\ env_states = Unbound
    /\ l_episode_rewards = Unbound
    /\ l_episode_timesteps = Unbound
    /\ terminals = Unbound

IdleArgs ==
    /\ num_timesteps = 0
    /\ max_timesteps_per_episode = 0
    /\ break_on_terminal = FALSE

\* The call has returned: its arguments and locals are gone.
LeaveCall ==
    /\ num_timesteps' = 0
    /\ max_timesteps_per_episode' = 0
    /\ break_on_terminal' = FALSE
    /\ timesteps_executed' = 0
    /\ l_episodes_executed' = Unbound
    /\ env_frames' = 0
    /\ sample_states' = Unbound
    /\ sample_actions' = Unbound
    /\ sample_rewards' = Unbound
    /\ sample_terminals' = Unbound
    /\ break_loop' = FALSE
    /\ next_states' = Unbound
    /\ env_states' = Unbound
    /\ l_episode_rewards' = Unbound
    /\ l_episode_timesteps' = Unbound
    /\ terminals' = Unbound

VtIdle == [stage |-> "off"]
PsIdle == [stage |-> "off"]
CfIdle == [stage |-> "off"]

\* The worker as constructed, its n_step_adjustment drawn from NSteps.
WorkerBuilt(NSteps) ==
    /\ num_environments \in 1 .. MaxEnvs
    /\ n_step_adjustment \in NSteps
    /\ worker_frameskip \in FrameskipSet
    /\ worker_computes_weights \in BOOLEAN
    /\ ep_len \in [Envs -> EpLenSet]
    /\ vector_env = EnvResetAll
    /\ agent_resets = 1
    /\ agent_updates = 0
    /\ episode_rewards = <<>>
    /\ episode_timesteps = <<>>
    /\ total_worker_steps = 0
    /\ episodes_executed = 0
    /\ sample_steps = <<>>
    /\ sample_env_frames = <<>>
    /\ last_states = EnvObs(EnvResetAll)
    /\ last_ep_timesteps = [i \in Envs |-> 0]
    /\ last_ep_rewards = [i \in Envs |-> 0]
    /\ last_terminals = [i \in Envs |-> FALSE]
    /\ pc = "idle"
    /\ IdleArgs
    /\ IdleLocals
    /\ sample = NoSample
    /\ calls = 0
    /\ requested = 0
    /\ reported = 0

WorkerInit == WorkerBuilt(NStepSet)

Init == WorkerInit /\ vt = VtIdle /\ ps = PsIdle /\ cf = CfIdle

(***************************************************************************)
(* RayWorker.execute_and_get_timesteps                                     *)
(***************************************************************************)
\* Lines 165-179: the call is entered and its locals are set up.
Call(nt, mt, bot) ==
    /\ pc = "idle"
    /\ calls < MaxCalls
    /\ requested + nt <= MaxTimesteps
    /\ calls' = calls + 1
    /\ requested' = requested + (IF nt > 0 THEN nt ELSE 1)
    /\ num_timesteps' = nt
    /\ max_timesteps_per_episode' = mt
    /\ break_on_terminal' = bot
    /\ timesteps_executed' = 0
    /\ l_episodes_executed' = [i \in Envs |-> 0]
    /\ env_frames' = 0
    /\ sample_states' = [k \in EnvIdKeys |-> <<>>]
    /\ sample_actions' = [k \in EnvIdKeys |-> <<>>]
    /\ sample_rewards' = [k \in EnvIdKeys |-> <<>>]
    /\ sample_terminals' = [k \in EnvIdKeys |-> <<>>]
    /\ break_loop' = FALSE
    /\ next_states' = [i \in Envs |-> ZeroState]
    /\ pc' = "outer"
    /\ UNCHANGED <<cfgVars, vector_env, agent_resets, agent_updates, selfVars,
                   env_states, l_episode_rewards, l_episode_timesteps,
                   terminals, sample, reported, vt, ps, cf>>

\* Lines 184-205: the reset pass over the environments i, i+1, ...  acc
\* holds the environment, the agent's reset count, is_reset,
\* self.last_ep_rewards and the three lists built by the pass.
RECURSIVE ResetPass(_, _)
ResetPass(acc, i) ==
    IF i >= num_environments THEN acc
    ELSE IF last_terminals[i] = TRUE \/ l_episodes_executed[i] > 0
    THEN ResetPass(
            [env |-> EnvReset(acc.env, i),
             env_states |-> Append(acc.env_states, Obs(i, 0)),
             agent_resets |-> IF ~acc.is_reset THEN acc.agent_resets + 1
                              ELSE acc.agent_resets,
             is_reset |-> IF ~acc.is_reset THEN acc.is_reset ELSE TRUE,
             last_ep_rewards |-> [acc.last_ep_rewards EXCEPT ![i] = 0],
             episode_rewards |-> Append(acc.episode_rewards, 0),
             episode_timesteps |-> Append(acc.episode_timesteps, 0)],
            i + 1)
    ELSE ResetPass(
            [acc EXCEPT
                !.env_states = Append(@, last_states[i]),
                !.episode_rewards = Append(@, acc.last_ep_rewards[i]),
                !.episode_timesteps = Append(@, last_ep_timesteps[i])],
            i + 1)

\* A Python list built by append, as a function over Envs.
AsEnvList(s) == [i \in Envs |-> s[i + 1]]

\* Line 181 and lines 184-208: the outer loop's test; when it passes, the
\* reset pass.
OuterLoop ==
    /\ pc = "outer"
    /\ IF timesteps_executed < num_timesteps
       THEN \E r \in {ResetPass([env |-> vector_env,
                                   env_states |-> <<>>,
                                   agent_resets |-> agent_resets,
                                   is_reset |-> FALSE,
                                   last_ep_rewards |-> last_ep_rewards,
                                   episode_rewards |-> <<>>,
                                   episode_timesteps |-> <<>>], 0)} :
                /\ vector_env' = r.env
                /\ agent_resets' = r.agent_resets
                /\ last_ep_rewards' = r.last_ep_rewards
                /\ env_states' = AsEnvList(r.env_states)
                /\ l_episode_rewards' = AsEnvList(r.episode_rewards)
                /\ l_episode_timesteps' = AsEnvList(r.episode_timesteps)
                /\ terminals' = [i \in Envs |-> FALSE]
                /\ pc' = "inner"
       ELSE /\ pc' = "finish"
            /\ UNCHANGED <<vector_env, agent_resets, last_ep_rewards,
                           env_states, l_episode_rewards, l_episode_timesteps,
                           terminals>>
    /\ UNCHANGED <<cfgVars, agent_updates, last_states, last_terminals,
                   last_ep_timesteps, episode_rewards, episode_timesteps,
                   total_worker_steps, episodes_executed, sample_steps,
                   sample_env_frames, argVars, timesteps_executed,
                   l_episodes_executed, env_frames, sample_states,
                   sample_actions, sample_rewards, sample_terminals,
                   break_loop, next_states, sample, calls, requested,
                   reported, vt, ps, cf>>

\* for i, env_id in enumerate(self.env_ids): d[env_id].append(vals[i])
RECURSIVE AppendEach(_, _, _)
AppendEach(d, vals, i) ==
    IF i >= num_environments THEN d
    ELSE AppendEach([d EXCEPT ![env_ids[i]] = Append(@, vals[i])], vals, i + 1)

\* for i, env_id in enumerate(self.env_ids): rewards[env_id] += step_rewards[i]
RECURSIVE AddRewards(_, _, _)
AddRewards(rewards, step_rewards, i) ==
    IF i >= num_environments THEN rewards
    ELSE AddRewards([rewards EXCEPT ![env_ids[i]] = @ + step_rewards[i]],
                    step_rewards, i + 1)

\* Lines 222-230: the frameskip loop from its k-th pass on.
RECURSIVE FrameLoop(_, _)
FrameLoop(st, k) ==
    IF k >= worker_frameskip THEN st
    ELSE LET s == EnvStep(st.env)
             new == [env |-> s.env,
                     next_states |-> s.next_states,
                     terminals |-> s.terminals,
                     env_frames |-> st.env_frames + 1,
                     rewards |-> AddRewards(st.rewards, s.step_rewards, 0)]
         IN  IF AnyTrue(s.terminals) THEN new ELSE FrameLoop(new, k + 1)

\* Line 246: the episode of environment i is concluded.
Concluded(terms, ep_timesteps, i) ==
    terms[i] \/ (0 < max_timesteps_per_episode
                    /\ max_timesteps_per_episode <= ep_timesteps[i])

\* Lines 244-250: account for the finished episodes of environments i, i+1, ...
RECURSIVE LogEpisodes(_, _, _, _, _)
LogEpisodes(acc, terms, ep_rewards, ep_timesteps, i) ==
    IF i >= num_environments THEN acc
    ELSE IF Concluded(terms, ep_timesteps, i)
    THEN LogEpisodes(
            [episode_rewards |-> Append(acc.episode_rewards, ep_rewards[i]),
             episode_timesteps |-> Append(acc.episode_timesteps, ep_timesteps[i]),
             l_episodes_executed |-> [acc.l_episodes_executed EXCEPT ![i] = @ + 1],
             episodes_executed |-> acc.episodes_executed + 1],
            terms, ep_rewards, ep_timesteps, i + 1)
    ELSE LogEpisodes(acc, terms, ep_rewards, ep_timesteps, i + 1)

\* Lines 210-260: one pass of the inner loop.
InnerStep ==
    /\ pc = "inner"
    /\ \E f \in {FrameLoop([env |-> vector_env,
                            next_states |-> next_states,
                            terminals |-> terminals,
                            env_frames |-> env_frames,
                            rewards |-> [k \in EnvIdKeys |-> 0]], 0)} :
       LET actions == [i \in Envs |-> Policy(env_states[i])]
           preprocessed_states == [i \in Envs |-> Preprocess(env_states[i])]
           rewards == f.rewards
           executed == timesteps_executed + num_environments
           ep_timesteps == [i \in Envs |-> l_episode_timesteps[i] + 1]
           ep_rewards == [i \in Envs |-> l_episode_rewards[i] + rewards[env_ids[i]]]
           count_reached == 0 < num_timesteps /\ num_timesteps <= executed
           terminal_break == AnyTrue(f.terminals) /\ break_on_terminal
       IN  \E logged \in {LogEpisodes(
                        [episode_rewards |-> episode_rewards,
                         episode_timesteps |-> episode_timesteps,
                         l_episodes_executed |-> l_episodes_executed,
                         episodes_executed |-> episodes_executed],
                        f.terminals, ep_rewards, ep_timesteps, 0)} :
           /\ sample_states' = AppendEach(sample_states, preprocessed_states, 0)
           /\ sample_actions' = AppendEach(sample_actions, actions, 0)
           /\ vector_env' = f.env
           /\ next_states' = f.next_states
           /\ terminals' = f.terminals
           /\ env_frames' = f.env_frames
           /\ timesteps_executed' = executed
           /\ l_episode_timesteps' = ep_timesteps
           /\ l_episode_rewards' = ep_rewards
           /\ sample_rewards' =
                AppendEach(sample_rewards, [i \in Envs |-> rewards[env_ids[i]]], 0)
           /\ sample_terminals' = AppendEach(sample_terminals, f.terminals, 0)
           /\ env_states' = f.next_states
           /\ episode_rewards' = logged.episode_rewards
           /\ episode_timesteps' = logged.episode_timesteps
           /\ l_episodes_executed' = logged.l_episodes_executed
           /\ episodes_executed' = logged.episodes_executed
           /\ total_worker_steps' =
                IF count_reached THEN total_worker_steps + executed
                ELSE total_worker_steps
           /\ break_loop' = (~count_reached /\ terminal_break)
           /\ pc' = IF count_reached THEN "outer"
                    ELSE IF terminal_break THEN "finish"
                    ELSE "inner"
    /\ UNCHANGED <<cfgVars, agent_resets, agent_updates, last_states,
                   last_terminals, last_ep_rewards, last_ep_timesteps,
                   sample_steps, sample_env_frames, argVars, sample, calls,
                   requested, reported, vt, ps, cf>>

(***************************************************************************)
(* RayWorker._process_sample_if_necessary                                  *)
(***************************************************************************)
\* Mutant of NStepInner: the accumulation does not stop at a terminal.
RECURSIVE NStepInnerNoBreak(_, _, _, _)
NStepInnerNoBreak(st, terms, i, j) ==
    IF j >= n_step_adjustment THEN st
    ELSE NStepInnerNoBreak(
            [states |-> [st.states EXCEPT ![i + 1] = st.states[i + j + 1]],
             rewards |-> [st.rewards EXCEPT ![i + 1] =
                            RAdd(@, RMul(RPow(discount, j),
                                         st.rewards[i + j + 1]))]],
            terms, i, j + 1)

\* Lines 382-388: the loop over j for record i (Python indices), from j on.
RECURSIVE NStepInner(_, _, _, _)
NStepInner(st, terms, i, j) ==
    IF j >= n_step_adjustment THEN st
    ELSE LET new == [states |-> [st.states EXCEPT ![i + 1] = st.states[i + j + 1]],
                     rewards |-> [st.rewards EXCEPT ![i + 1] =
                                    RAdd(@, RMul(RPow(discount, j),
                                                 st.rewards[i + j + 1]))]]
         IN  IF terms[i + j + 1] THEN new ELSE NStepInner(new, terms, i, j + 1)

\* Lines 378-388: the loop over i, from i on.
RECURSIVE NStepOuter(_, _, _)
NStepOuter(st, terms, i) ==
    IF i >= Len(st.rewards) - n_step_adjustment + 1 THEN st
    ELSE IF terms[i + 1] THEN NStepOuter(st, terms, i + 1)
    ELSE NStepOuter(NStepInner(st, terms, i, 1), terms, i + 1)

\* Lines 377-393: n-step adjustment and truncation of the five arrays.
NStepAdjust(b) ==
    IF n_step_adjustment > 1
    THEN LET st == NStepOuter([states |-> b.states, rewards |-> b.rewards],
                              b.terminals, 0)
             new_len == Len(st.states) - n_step_adjustment + 1
         IN  [states |-> DelFrom(st.states, new_len),
              actions |-> DelFrom(b.actions, new_len),
              rewards |-> DelFrom(st.rewards, new_len),
              next_states |-> DelFrom(b.next_states, new_len),
              terminals |-> DelFrom(b.terminals, new_len)]
    ELSE b

\* Lines 395-411: the importance weights.
ImportanceWeights(rewards) ==
    IF worker_computes_weights
    THEN [k \in 1..Len(rewards) |->
            RAdd(RAbs(LossPerItem(rewards[k])), SMALL_NUMBER)]
    ELSE [k \in 1..Len(rewards) |-> Rat(1)]

\* Lines 395-410: the calls of agent.update the post-processing makes, each
\* with the batch it passes.
UpdateCalls(a) ==
    IF worker_computes_weights
    THEN <<[states |-> a.states,
            actions |-> a.actions,
            rewards |-> a.rewards,
            terminals |-> a.terminals,
            next_states |-> a.next_states,
            importance_weights |-> [k \in 1..Len(a.rewards) |-> Rat(1)]]>>
    ELSE <<>>

\* Lines 377-419: (sample batch, batch size), and the agent.update calls
\* made on the way.
ProcessSample(b) ==
    LET a == NStepAdjust(b)
    IN  [sample_batch |->
            [states |-> [k \in 1..Len(a.states) |-> RayCompress(a.states[k])],
             actions |-> a.actions,
             rewards |-> a.rewards,
             terminals |-> a.terminals,
             importance_weights |-> ImportanceWeights(a.rewards)],
         batch_size |-> Len(a.rewards),
         update_calls |-> UpdateCalls(a)]

\* Lines 275-307: the per-environment fragments merged into one batch, for
\* the environments i, i+1, ...
RECURSIVE MergeBatch(_, _)
MergeBatch(b, i) ==
    IF i >= num_environments THEN b
    ELSE LET env_id == env_ids[i]
             final_next == IF terminals[i] THEN ZeroState ELSE next_states[i]
         IN  MergeBatch(
                [states |-> b.states \o sample_states[env_id],
                 actions |-> b.actions \o sample_actions[env_id],
                 rewards |-> b.rewards \o
                    [k \in 1..Len(sample_rewards[env_id]) |->
                        Rat(sample_rewards[env_id][k])],
                 next_states |-> b.next_states \o Rest(sample_states[env_id])
                                    \o <<Preprocess(final_next)>>,
                 terminals |-> b.terminals \o sample_terminals[env_id]],
                i + 1)

EmptyBatch ==
    [states |-> <<>>, actions |-> <<>>, rewards |-> <<>>,
     next_states |-> <<>>, terminals |-> <<>>]

\* Lines 265-323: the loops are left.  Reading the local name terminals
\* before any pass of the outer loop has bound it raises UnboundLocalError.
Finish ==
    /\ pc = "finish"
    /\ IF terminals = Unbound
       THEN /\ sample' = [kind |-> "error", error |-> "UnboundLocalError"]
            /\ UNCHANGED <<last_terminals, last_states, last_ep_rewards,
                           sample_steps, sample_env_frames, agent_updates,
                           reported>>
       ELSE \E p \in {ProcessSample(MergeBatch(EmptyBatch, 0))} :
                /\ last_terminals' = terminals
                /\ last_states' = env_states
                /\ last_ep_rewards' = l_episode_rewards
                /\ sample_steps' = Append(sample_steps, timesteps_executed)
                /\ sample_env_frames' = Append(sample_env_frames, env_frames)
                /\ agent_updates' = agent_updates + Len(p.update_calls)
                /\ sample' = [kind |-> "sample",
                              sample_batch |-> p.sample_batch,
                              batch_size |-> p.batch_size,
                              metrics |-> [timesteps_executed |-> timesteps_executed]]
                /\ reported' = reported + timesteps_executed
    /\ pc' = "idle"
    /\ LeaveCall
    /\ UNCHANGED <<cfgVars, vector_env, agent_resets, last_ep_timesteps,
                   episode_rewards, episode_timesteps, total_worker_steps,
                   episodes_executed, calls, requested, vt, ps, cf>>

(***************************************************************************)
(* VTraceFunction._graph_fn_calc_v_trace_values, for one batch entry: every *)
(* operation of the function is elementwise along the batch axis, so a     *)
(* tensor of shape [T, B] is modelled by the time sequence of one entry    *)
(* and bootstrapped_v by that entry's number.  Log importance weights are  *)
(* integer multiples of ln 2, so that their exponentials are rational.     *)
(***************************************************************************)
None == <<>>

LogIsWeightSet == {0 - 1, 0, 1}
DiscountSet == {Rat(0), <<1, 2>>}
BootstrapSet == {Rat(1)}
ThresholdSet == {None, Rat(1)}

\* The reward and value sequences of length T the inputs are drawn from.
RewardSeqs(T) == {[t \in 1..T |-> Rat(2 - t)]}
ValueSeqs(T) == {[t \in 1..T |-> Rat(t)], [t \in 1..T |-> Rat(2 * (t % 2))]}

RECURSIVE Pow2(_)
Pow2(k) == IF k = 0 THEN 1 ELSE 2 * Pow2(k - 1)

\* tf.exp(x) for x = k * ln 2
Exp(k) == IF k >= 0 THEN <<Pow2(k), 1>> ELSE <<1, Pow2(0 - k)>>

\* Mutant of Clip: the larger of threshold and weight is taken.
ClipMaximum(bar, is_weights) ==
    IF bar # None
    THEN [t \in 1..Len(is_weights) |->
            IF RLeq(bar, is_weights[t]) THEN is_weights[t] ELSE bar]
    ELSE is_weights

\* Mutant of Clip: a threshold of None falls back to the default 1.0.
ClipNoneAsDefault(bar, is_weights) ==
    [t \in 1..Len(is_weights) |->
        RMin(IF bar # None THEN bar ELSE Rat(1), is_weights[t])]

\* Lines 101-114: tf.minimum(bar, is_weights), skipped when bar is None.
Clip(bar, is_weights) ==
    IF bar # None
    THEN [t \in 1..Len(is_weights) |-> RMin(bar, is_weights[t])]
    ELSE is_weights

\* tf.concat([x[1:], tf.expand_dims(last, axis=0)], axis=0)
ShiftAppend(x, last) == Rest(x) \o <<last>>

\* Mutant of DtVs: the next value enters undiscounted.
DtVsNoDiscount(rho_t, discounts, rewards, values, values_t_plus_1) ==
    [t \in 1..Len(values) |->
        RMul(rho_t[t], RSub(RAdd(rewards[t], values_t_plus_1[t]), values[t]))]

\* Line 120
DtVs(rho_t, discounts, rewards, values, values_t_plus_1) ==
    [t \in 1..Len(values) |->
        RMul(rho_t[t],
             RSub(RAdd(rewards[t], RMul(discounts[t], values_t_plus_1[t])),
                  values[t]))]

\* Mutant of ScanFunc: the trace weight c_t is left out.
ScanFuncNoTraceWeight(vs_minus_v_xs_, gamma_t, c_t, dt_v) ==
    RAdd(dt_v, RMul(gamma_t, vs_minus_v_xs_))

\* Lines 132-134
ScanFunc(vs_minus_v_xs_, gamma_t, c_t, dt_v) ==
    RAdd(dt_v, RMul(RMul(gamma_t, c_t), vs_minus_v_xs_))

\* tf.scan(fn=scan_func, elems=elements, initializer=...): the outputs from
\* element k on, acc being the previous output.
RECURSIVE Scan(_, _, _)
Scan(elements, acc, k) ==
    IF k > Len(elements[1]) THEN <<>>
    ELSE LET out == ScanFunc(acc, elements[1][k], elements[2][k], elements[3][k])
         IN  <<out>> \o Scan(elements, out, k + 1)

\* Mutant of VsMinusVxs: the scan starts from 1 instead of zeros.
VsMinusVxsOnesInit(discounts, c_i, dt_vs) ==
    Reverse(Scan(<<Reverse(discounts), Reverse(c_i), Reverse(dt_vs)>>,
                 Rat(1), 1))

\* Lines 127-144
VsMinusVxs(discounts, c_i, dt_vs) ==
    Reverse(Scan(<<Reverse(discounts), Reverse(c_i), Reverse(dt_vs)>>,
                 Rat(0), 1))

\* Mutant of PgAdvantages: the discount is left out.
PgAdvantagesNoDiscount(rho_t_pg, discounts, rewards, values, vs_t_plus_1) ==
    [t \in 1..Len(values) |->
        RMul(rho_t_pg[t], RSub(RAdd(rewards[t], vs_t_plus_1[t]), values[t]))]

\* Line 153
PgAdvantages(rho_t_pg, discounts, rewards, values, vs_t_plus_1) ==
    [t \in 1..Len(values) |->
        RMul(rho_t_pg[t],
             RSub(RAdd(rewards[t], RMul(discounts[t], vs_t_plus_1[t])),
                  values[t]))]

\* Lines 97-156: (vs, pg_advantages)
CalcVTraceValues(rho_bar, rho_bar_pg, c_bar, log_is_weights, discounts, rewards, values, bootstrapped_v) ==
    LET is_weights == [t \in 1..Len(log_is_weights) |-> Exp(log_is_weights[t])]
        rho_t == Clip(rho_bar, is_weights)
        rho_t_pg == Clip(rho_bar_pg, is_weights)
        c_i == Clip(c_bar, is_weights)
        values_t_plus_1 == ShiftAppend(values, bootstrapped_v)
        dt_vs == DtVs(rho_t, discounts, rewards, values, values_t_plus_1)
        vs_minus_v_xs == VsMinusVxs(discounts, c_i, dt_vs)
        vs == [t \in 1..Len(values) |-> RAdd(vs_minus_v_xs[t], values[t])]
        vs_t_plus_1 == ShiftAppend(vs, bootstrapped_v)
    IN  [vs |-> vs,
         pg_advantages |->
            PgAdvantages(rho_t_pg, discounts, rewards, values, vs_t_plus_1)]

SeqsOf(S, n) == [1..n -> S]

VtInit ==
    \E T \in 1..MaxT :
        vt \in [stage : {"input"},
                rho_bar : ThresholdSet,
                rho_bar_pg : ThresholdSet,
                c_bar : ThresholdSet,
                log_is_weights : SeqsOf(LogIsWeightSet, T),
                discounts : SeqsOf(DiscountSet, T),
                rewards : RewardSeqs(T),
                values : ValueSeqs(T),
                bootstrapped_v : BootstrapSet,
                vs : {<<>>},
                pg_advantages : {<<>>}]

\* The API method calc_v_trace_values is called on the inputs.
CalcVTrace ==
    /\ vt.stage = "input"
    /\ \E out \in {CalcVTraceValues(vt.rho_bar, vt.rho_bar_pg, vt.c_bar,
                                    vt.log_is_weights, vt.discounts, vt.rewards,
                                    vt.values, vt.bootstrapped_v)} :
            vt' = [vt EXCEPT !.stage = "done",
                             !.vs = out.vs,
                             !.pg_advantages = out.pg_advantages]
    /\ UNCHANGED <<workerVars, ps, cf>>

(***************************************************************************)
(* VTraceFunction.check_input_spaces.  A space is described by its batch   *)
(* rank flag, its time rank flag and its rank.                             *)
(***************************************************************************)
RankSet == {0, 1}
SpaceSet == [has_batch_rank : BOOLEAN, has_time_rank : BOOLEAN, rank : RankSet]

\* A keyword argument that is not passed (left at None).
NotGiven == {}
Must(v) == {v}

\* sanity_check_space(space, rank=..., must_have_batch_rank=...,
\* must_have_time_rank=...): TRUE when the space passes, FALSE when the
\* check raises.
SanityCheckSpace(space, rank, must_have_batch_rank, must_have_time_rank) ==
    /\ must_have_batch_rank = NotGiven \/ space.has_batch_rank \in must_have_batch_rank
    /\ must_have_time_rank = NotGiven \/ space.has_time_rank \in must_have_time_rank
    /\ rank = NotGiven \/ space.rank \in rank

\* Mutant of CheckInputSpaces: the bootstrap value space is checked like the
\* other value spaces, time rank required.
CheckInputSpacesBootstrapTimeRank(in_spaces) ==
    LET log_is_weight_space == in_spaces[1]
        discounts_space == in_spaces[2]
        rewards_space == in_spaces[3]
        values_space == in_spaces[4]
        bootstrap_value_space == in_spaces[5]
        log_is_weight_rank == Must(log_is_weight_space.rank)
    IN  IF /\ SanityCheckSpace(log_is_weight_space, NotGiven, Must(TRUE), NotGiven)
           /\ SanityCheckSpace(values_space, log_is_weight_rank, Must(TRUE), Must(TRUE))
           /\ SanityCheckSpace(bootstrap_value_space, NotGiven, Must(TRUE), Must(TRUE))
           /\ SanityCheckSpace(discounts_space, log_is_weight_rank, Must(TRUE), Must(TRUE))
           /\ SanityCheckSpace(rewards_space, log_is_weight_rank, Must(TRUE), Must(TRUE))
        THEN "ok" ELSE "RLGraphError"

\* Lines 58-70: "ok" when every check passes, else the error the first
\* failing check raises.
CheckInputSpaces(in_spaces) ==
    LET log_is_weight_space == in_spaces[1]
        discounts_space == in_spaces[2]
        rewards_space == in_spaces[3]
        values_space == in_spaces[4]
        bootstrap_value_space == in_spaces[5]
        log_is_weight_rank == Must(log_is_weight_space.rank)
    IN  IF /\ SanityCheckSpace(log_is_weight_space, NotGiven, Must(TRUE), NotGiven)
           /\ SanityCheckSpace(values_space, log_is_weight_rank, Must(TRUE), Must(TRUE))
           /\ SanityCheckSpace(bootstrap_value_space, NotGiven, Must(TRUE), Must(FALSE))
           /\ SanityCheckSpace(discounts_space, log_is_weight_rank, Must(TRUE), Must(TRUE))
           /\ SanityCheckSpace(rewards_space, log_is_weight_rank, Must(TRUE), Must(TRUE))
        THEN "ok" ELSE "RLGraphError"

\* The component is about to be built on the five input spaces
\* (log_is_weights, discounts, rewards, values, bootstrapped_v).
SpacesInit ==
    vt \in [stage : {"spaces"},
            in_spaces : [1..5 -> SpaceSet],
            outcome : {"unchecked"}]

\* The build calls check_input_spaces on the input spaces.
CheckSpaces ==
    /\ vt.stage = "spaces"
    /\ vt' = [vt EXCEPT !.stage = "checked",
                        !.outcome = CheckInputSpaces(vt.in_spaces)]
    /\ UNCHANGED <<workerVars, ps, cf>>

(***************************************************************************)
(* _process_sample_if_necessary called on five parallel arrays of any      *)
(* length: record k has the state observed at time k - 1 and the next      *)
(* state observed at time k.                                               *)
(***************************************************************************)
PsRewardSeqs(L) == {[k \in 1..L |-> Rat(1)], [k \in 1..L |-> Rat(k)]}

PsInit ==
    \E L \in 0..MaxRecords :
        ps \in [stage : {"input"},
                states : {[k \in 1..L |-> k - 1]},
                actions : {[k \in 1..L |-> k % 2]},
                rewards : PsRewardSeqs(L),
                next_states : {[k \in 1..L |-> k]},
                terminals : [1..L -> BOOLEAN],
                result : {NoSample}]

\* self._process_sample_if_necessary(states, actions, rewards, next_states,
\* terminals)
ProcessCall ==
    /\ ps.stage = "input"
    /\ ps' = [ps EXCEPT !.stage = "done",
                        !.result = ProcessSample([states |-> ps.states,
                                                  actions |-> ps.actions,
                                                  rewards |-> ps.rewards,
                                                  next_states |-> ps.next_states,
                                                  terminals |-> ps.terminals])]
    /\ UNCHANGED <<workerVars, vt, cf>>

(***************************************************************************)
(* RayWorker.execute_and_get_with_count                                    *)
(***************************************************************************)
\* Lines 333-335: the pair returned for the value s that
\* execute_and_get_timesteps returned; an exception passes through.
ExecuteAndGetWithCount(s) ==
    IF s.kind = "sample" THEN <<s, s.batch_size>> ELSE s

(***************************************************************************)
(* RayWorker.get_constructor_success                                       *)
(***************************************************************************)
\* Lines 100-104: the value the health check returns.
GetConstructorSuccess == ~last_terminals[0]

(***************************************************************************)
(* RayWorker.get_workload_statistics                                       *)
(***************************************************************************)
RECURSIVE SumSeq(_)
SumSeq(s) == IF Len(s) = 0 THEN 0 ELSE Head(s) + SumSeq(Tail(s))

\* np.min / np.max of a non-empty list
NpMin(s) == CHOOSE x \in {s[k] : k \in 1..Len(s)} : \A k \in 1..Len(s) : x <= s[k]
NpMax(s) == CHOOSE x \in {s[k] : k \in 1..Len(s)} : \A k \in 1..Len(s) : x >= s[k]

\* Lines 340-360: the dict returned, or the exception raised while its
\* entries are evaluated in order.  np.min of an empty list raises
\* ValueError.  The two per-second entries divide by sum(self.sample_times),
\* which has one positive entry per returned collect call.
GetWorkloadStatistics ==
    IF Len(episode_rewards) = 0
    THEN [kind |-> "error", error |-> "ValueError"]
    ELSE IF Len(sample_steps) = 0
    THEN [kind |-> "error", error |-> "ZeroDivisionError"]
    ELSE [kind |-> "stats",
          episode_timesteps |-> episode_timesteps,
          episode_rewards |-> episode_rewards,
          min_episode_reward |-> NpMin(episode_rewards),
          max_episode_reward |-> NpMax(episode_rewards),
          mean_episode_reward |-> Norm(SumSeq(episode_rewards), Len(episode_rewards)),
          final_episode_reward |-> episode_rewards[Len(episode_rewards)],
          episodes_executed |-> episodes_executed,
          worker_steps |-> total_worker_steps]

(***************************************************************************)
(* Set-up functions.  A call either returns a value or raises an error.    *)
(***************************************************************************)
Return(v) == [kind |-> "return", value |-> v]
Raise(error, message) == [kind |-> "error", error |-> error, message |-> message]
NoOutcome == [kind |-> "none"]

(***************************************************************************)
(* input_parsing.get_optimizer_from_device_strategy                        *)
(***************************************************************************)
\* The device_strategy argument; 'default' is also what the parameter is
\* when the argument is left out.
DeviceStrategySet ==
    {"default", "custom", "multi_gpu_sync", "multi_gpu_async", "Default",
     "multi_gpu", ""}

\* Learning rates are in thousandths.
OptimizerSpecSet == [type : {"adam", "sgd"}, learning_rate : {1, 25}]

\* Optimizer.from_spec(optimizer_spec)
OptimizerFromSpec(optimizer_spec) ==
    [class |-> "Optimizer", spec |-> optimizer_spec]

\* MultiGpuSyncOptimizer(local_optimizer=local_optimizer)
MultiGpuSyncOptimizer(local_optimizer) ==
    [class |-> "MultiGpuSyncOptimizer", local_optimizer |-> local_optimizer]

\* Mutant of GetOptimizerFromDeviceStrategy: a strategy that is not known
\* falls back to the plain optimizer.
GetOptimizerFromDeviceStrategyFallback(optimizer_spec, device_strategy) ==
    IF device_strategy = "multi_gpu_sync"
    THEN [outcome |-> Return(MultiGpuSyncOptimizer(OptimizerFromSpec(optimizer_spec))),
          optimizers_built |-> 1]
    ELSE [outcome |-> Return(OptimizerFromSpec(optimizer_spec)),
          optimizers_built |-> 1]

\* Lines 43-65: the outcome of the call and the number of
\* Optimizer.from_spec calls it made.
GetOptimizerFromDeviceStrategy(optimizer_spec, device_strategy) ==
    IF device_strategy = "default" \/ device_strategy = "custom"
    THEN [outcome |-> Return(OptimizerFromSpec(optimizer_spec)),
          optimizers_built |-> 1]
    ELSE IF device_strategy = "multi_gpu_sync"
    THEN LET local_optimizer == OptimizerFromSpec(optimizer_spec)
         IN  [outcome |-> Return(MultiGpuSyncOptimizer(local_optimizer)),
              optimizers_built |-> 1]
    ELSE [outcome |-> Raise("RLGraphError", "Device strategy is not allowed"),
          optimizers_built |-> 0]

OptimizerInit ==
    cf \in [fn : {"get_optimizer_from_device_strategy"},
            stage : {"input"},
            optimizer_spec : OptimizerSpecSet,
            device_strategy : DeviceStrategySet,
            outcome : {NoOutcome},
            optimizers_built : {0}]

\* get_optimizer_from_device_strategy(optimizer_spec, device_strategy)
GetOptimizer ==
    /\ cf.stage = "input"
    /\ cf.fn = "get_optimizer_from_device_strategy"
    /\ \E r \in {GetOptimizerFromDeviceStrategy(cf.optimizer_spec,
                                                cf.device_strategy)} :
            cf' = [cf EXCEPT !.stage = "done",
                             !.outcome = r.outcome,
                             !.optimizers_built = r.optimizers_built]
    /\ UNCHANGED <<workerVars, vt, ps>>

(***************************************************************************)
(* input_parsing.parse_update_spec.  A Python value is None or a dict; a   *)
(* dict is a function from its keys.                                       *)
(***************************************************************************)
PyNone == [type |-> "NoneType"]
PyDict(items) == [type |-> "dict", items |-> items]

\* The intervals an update_spec may give.
IntervalSet == 0..MaxInterval

\* The dicts over the two interval keys, each key given or left out.
IntervalDicts ==
    UNION {[keys -> IntervalSet] :
            keys \in SUBSET {"update_interval", "sync_interval"}}

UpdateSpecSet == {PyNone} \cup {PyDict(d) : d \in IntervalDicts}

\* Lines 190-204
default_spec ==
    [do_updates |-> TRUE,
     steps_before_update |-> 0,
     update_interval |-> 4,
     update_steps |-> 1,
     batch_size |-> 64,
     sync_interval |-> 128]

\* default_dict(original, defaults): the defaults when original is None,
\* else original with every key it lacks taken from defaults.
DefaultDict(original, defaults) ==
    IF original = PyNone THEN defaults
    ELSE [k \in DOMAIN defaults \cup DOMAIN original.items |->
            IF k \in DOMAIN original.items THEN original.items[k]
            ELSE defaults[k]]

\* Python's a / b (true division) and a // b (floor division) for integers
\* a >= 0 and b > 0.
TrueDiv(a, b) == Norm(a, b)
FloorDiv(a, b) == Rat(a \div b)

\* Lines 179-214
ParseUpdateSpec(update_spec) ==
    LET merged == DefaultDict(update_spec, default_spec)
    IN  IF merged["update_interval"] = 0
        THEN Raise("ZeroDivisionError", "division by zero")
        ELSE IF TrueDiv(merged["sync_interval"], merged["update_interval"]) #
                FloorDiv(merged["sync_interval"], merged["update_interval"])
        THEN Raise("RLGraphError",
                   "sync_interval must be multiple of update_interval")
        ELSE Return(merged)

UpdateSpecInit ==
    cf \in [fn : {"parse_update_spec"},
            stage : {"input"},
            update_spec : UpdateSpecSet,
            outcome : {NoOutcome}]

\* parse_update_spec(update_spec)
ParseUpdate ==
    /\ cf.stage = "input"
    /\ cf.fn = "parse_update_spec"
    /\ cf' = [cf EXCEPT !.stage = "done",
                        !.outcome = ParseUpdateSpec(cf.update_spec)]
    /\ UNCHANGED <<workerVars, vt, ps>>

(***************************************************************************)
(* NNOutputCleanup.__init__.  A space is described by its class and its    *)
(* global_bounds attribute: the pair (low, high) shared by all dimensions, *)
(* or False when the dimensions have bounds of their own.                  *)
(***************************************************************************)
GlobalBoundsFalse == <<>>

TargetSpaceSet ==
    [class : {"IntBox", "FloatBox", "BoolBox"},
     global_bounds : {GlobalBoundsFalse} \cup
                     ({0 - 1, 0, 1} \X (1..MaxCategories))]

BiasSet == {PyNone, [type |-> "float", value |-> 1]}

MustBeIntBox == "target_space must be IntBox"
MustNotHaveIndividualBounds ==
    "target_space must not have individual lower and upper bounds"
MustHaveLowerBoundZero == "target_space must have a lower bound of 0"

\* Mutant of NNOutputCleanupInit: the bounds are checked before the class.
NNOutputCleanupInitBoundsFirst(target_space, bias) ==
    IF target_space.global_bounds = GlobalBoundsFalse
    THEN Raise("YARLError", MustNotHaveIndividualBounds)
    ELSE IF target_space.global_bounds[1] # 0
    THEN Raise("YARLError", MustHaveLowerBoundZero)
    ELSE IF target_space.class # "IntBox"
    THEN Raise("YARLError", MustBeIntBox)
    ELSE Return([target_space |-> target_space,
                 num_categories_per_dim |->
                    target_space.global_bounds[2] - target_space.global_bounds[1],
                 inputs |-> {"nn_output"},
                 outputs |-> {"parameters"},
                 cleanup_input |-> IF bias # PyNone THEN "bias_layer.output"
                                   ELSE "nn_outputs"])

\* Lines 42-78: the error raised, or the component as built.
NNOutputCleanupInit(target_space, bias) ==
    IF target_space.class # "IntBox"
    THEN Raise("YARLError", MustBeIntBox)
    ELSE IF target_space.global_bounds = GlobalBoundsFalse
    THEN Raise("YARLError", MustNotHaveIndividualBounds)
    ELSE IF target_space.global_bounds[1] # 0
    THEN Raise("YARLError", MustHaveLowerBoundZero)
    ELSE Return([target_space |-> target_space,
                 num_categories_per_dim |->
                    target_space.global_bounds[2] - target_space.global_bounds[1],
                 inputs |-> {"nn_output"},
                 outputs |-> {"parameters"},
                 cleanup_input |-> IF bias # PyNone THEN "bias_layer.output"
                                   ELSE "nn_outputs"])

CleanupInit ==
    cf \in [fn : {"NNOutputCleanup"},
            stage : {"input"},
            target_space : TargetSpaceSet,
            bias : BiasSet,
            outcome : {NoOutcome}]

\* NNOutputCleanup(target_space, bias)
BuildCleanup ==
    /\ cf.stage = "input"
    /\ cf.fn = "NNOutputCleanup"
    /\ cf' = [cf EXCEPT !.stage = "done",
                        !.outcome = NNOutputCleanupInit(cf.target_space, cf.bias)]
    /\ UNCHANGED <<workerVars, vt, ps>>

WorkerNext ==
    \/ \E nt \in NumTimestepsSet, mt \in MaxPerEpisodeSet, bot \in BOOLEAN :
            Call(nt, mt, bot)
    \/ OuterLoop
    \/ InnerStep
    \/ Finish

Next == WorkerNext

Spec == Init /\ [][Next]_vars

\* The V-trace function evaluated on every input of the bounded sets, beside
\* a worker that stays as constructed.
VInit ==
    /\ WorkerInit
    /\ num_environments = 1
    /\ n_step_adjustment = 1
    /\ worker_frameskip = 1
    /\ worker_computes_weights = TRUE
    /\ ep_len = [i \in Envs |-> 2]
    /\ VtInit
    /\ ps = PsIdle
    /\ cf = CfIdle

VNext == CalcVTrace

VSpec == VInit /\ [][VNext]_vars

\* The input space check evaluated on every combination of five spaces,
\* beside a worker that stays as constructed.
CheckInit ==
    /\ WorkerInit
    /\ num_environments = 1
    /\ n_step_adjustment = 1
    /\ worker_frameskip = 1
    /\ worker_computes_weights = TRUE
    /\ ep_len = [i \in Envs |-> 2]
    /\ SpacesInit
    /\ ps = PsIdle
    /\ cf = CfIdle

CheckNext == CheckSpaces

CheckSpec == CheckInit /\ [][CheckNext]_vars

\* The post-processing evaluated on its own on every batch of the bounded
\* sets, by a worker that stays as constructed.
PInit ==
    /\ WorkerBuilt(1..MaxNStep)
    /\ num_environments = 1
    /\ worker_frameskip = 1
    /\ ep_len = [i \in Envs |-> 2]
    /\ vt = VtIdle
    /\ PsInit
    /\ cf = CfIdle

PNext == ProcessCall

PSpec == PInit /\ [][PNext]_vars

(***************************************************************************)
(* Claims about the V-trace function (specification VSpec).                *)
(***************************************************************************)
\* The set-up functions called on every argument of the bounded sets, beside
\* a worker that stays as constructed.
SetupInit ==
    /\ WorkerInit
    /\ num_environments = 1
    /\ n_step_adjustment = 1
    /\ worker_frameskip = 1
    /\ worker_computes_weights = TRUE
    /\ ep_len = [i \in Envs |-> 2]
    /\ vt = VtIdle
    /\ ps = PsIdle
    /\ \/ OptimizerInit
       \/ UpdateSpecInit
       \/ CleanupInit

SetupNext ==
    \/ GetOptimizer
    \/ ParseUpdate
    \/ BuildCleanup

SetupSpec == SetupInit /\ [][SetupNext]_vars

VtDone == vt.stage = "done"
VtT == Len(vt.values)

\* The importance weight of step t and its clipped forms, per the claims.
IsWeight(t) == Exp(vt.log_is_weights[t])
Clipped(bar, t) == IF bar = None THEN IsWeight(t) ELSE RMin(bar, IsWeight(t))
RhoAt(t) == Clipped(vt.rho_bar, t)
RhoPgAt(t) == Clipped(vt.rho_bar_pg, t)
CAt(t) == Clipped(vt.c_bar, t)

\* weight * (rewards[t] + discounts[t] * nxt - values[t])
TdTerm(weight, t, nxt) ==
    RMul(weight, RSub(RAdd(vt.rewards[t], RMul(vt.discounts[t], nxt)),
                      vt.values[t]))

ValuesNext(t) == IF t < VtT THEN vt.values[t + 1] ELSE vt.bootstrapped_v
VsNext(t) == IF t < VtT THEN vt.vs[t + 1] ELSE vt.bootstrapped_v
DtVsAt(t) == TdTerm(RhoAt(t), t, ValuesNext(t))

\* The recursion as the claim C7 states it: correction[T-1] = 0 at the
\* last step.
RECURSIVE CorrectionZeroAtLast(_)
CorrectionZeroAtLast(t) ==
    IF t >= VtT THEN Rat(0)
    ELSE RAdd(DtVsAt(t),
              RMul(RMul(vt.discounts[t], CAt(t)), CorrectionZeroAtLast(t + 1)))

\* The recursion started from a zero correction after the last step.
RECURSIVE CorrectionZeroAfterLast(_)
CorrectionZeroAfterLast(t) ==
    IF t > VtT THEN Rat(0)
    ELSE RAdd(DtVsAt(t),
              RMul(RMul(vt.discounts[t], CAt(t)), CorrectionZeroAfterLast(t + 1)))

\* C7 as stated: vs[t] = values[t] + correction[t] with correction[T-1] = 0
\* and correction[t] = dt_vs[t] + discounts[t] * c_i[t] * correction[t+1]
\* for the earlier steps.
C7_CorrectionZeroAtLastStep ==
    VtDone =>
        \A t \in 1..VtT : vt.vs[t] = RAdd(vt.values[t], CorrectionZeroAtLast(t))

\* C7 amended: vs[t] = values[t] + correction[t] where correction[t] =
\* dt_vs[t] + discounts[t] * c_i[t] * correction[t+1] for every step t of
\* the trajectory, the last one included, and the correction after the last
\* step is 0 (so correction[T-1] = dt_vs[T-1]).
C7_CorrectionRecursion ==
    VtDone =>
        \A t \in 1..VtT : vt.vs[t] = RAdd(vt.values[t], CorrectionZeroAfterLast(t))

C7_Witness ==
    /\ VtDone
    /\ VtT >= 2
    /\ DtVsAt(VtT) # Rat(0)
    /\ vt.discounts[VtT - 1] # Rat(0)
    /\ CAt(VtT - 1) # IsWeight(VtT - 1)
    /\ vt.vs[1] # RAdd(vt.values[1], DtVsAt(1))

\* C8: for T = 1, vs[0] = values[0] + rho_t[0] * (rewards[0] + discounts[0]
\* * bootstrapped_v - values[0]) with rho_t[0] = min(rho_bar, is_weights[0])
\* (is_weights[0] when rho_bar is None), whatever c_bar is.
C8_SingleStep ==
    (VtDone /\ VtT = 1) =>
        /\ vt.vs[1] = RAdd(vt.values[1],
                           TdTerm(RhoAt(1), 1, vt.bootstrapped_v))
        /\ \A c_bar \in ThresholdSet :
                CalcVTraceValues(vt.rho_bar, vt.rho_bar_pg, c_bar,
                                 vt.log_is_weights, vt.discounts, vt.rewards,
                                 vt.values, vt.bootstrapped_v).vs = vt.vs

C8_Witness ==
    /\ VtDone
    /\ VtT = 1
    /\ vt.c_bar # None
    /\ CAt(1) # IsWeight(1)
    /\ vt.discounts[1] # Rat(0)
    /\ vt.bootstrapped_v # Rat(0)
    /\ vt.vs[1] # vt.values[1]

AllNone == vt.rho_bar = None /\ vt.rho_bar_pg = None /\ vt.c_bar = None

\* C9 as stated: with all three thresholds None, vs[t] = rewards[t] +
\* discounts[t] * vs[t+1] for every t, vs[T] being bootstrapped_v.
C9_NStepReturn ==
    (VtDone /\ AllNone) =>
        \A t \in 1..VtT :
            vt.vs[t] = RAdd(vt.rewards[t], RMul(vt.discounts[t], VsNext(t)))

\* C9 amended: with all three thresholds None, vs[t] = values[t] +
\* is_weights[t] * (rewards[t] + discounts[t] * vs[t+1] - values[t]) for
\* every t, vs[T] being bootstrapped_v; at the steps where is_weights[t] = 1
\* this is the n-step return recursion vs[t] = rewards[t] + discounts[t] *
\* vs[t+1].
C9_UnclippedRecursion ==
    (VtDone /\ AllNone) =>
        \A t \in 1..VtT :
            /\ vt.vs[t] = RAdd(vt.values[t], TdTerm(IsWeight(t), t, VsNext(t)))
            /\ vt.log_is_weights[t] = 0 =>
                vt.vs[t] = RAdd(vt.rewards[t], RMul(vt.discounts[t], VsNext(t)))

C9_Witness ==
    /\ VtDone
    /\ AllNone
    /\ VtT >= 3
    /\ vt.log_is_weights[1] = 0
    /\ vt.log_is_weights[2] = 1
    /\ vt.log_is_weights[3] = 0 - 1
    /\ \A t \in 1..VtT : vt.discounts[t] # Rat(0)
    /\ vt.vs[2] # RAdd(vt.rewards[2], RMul(vt.discounts[2], VsNext(2)))

\* C10: pg_advantages[t] = rho_t_pg[t] * (rewards[t] + discounts[t] *
\* vs_t_plus_1[t] - values[t]) for every t, where vs_t_plus_1[t] = vs[t+1]
\* for t < T-1 and bootstrapped_v at the last step, and rho_t_pg is the
\* importance weight clipped with rho_bar_pg alone.
C10_PgAdvantages ==
    VtDone =>
        \A t \in 1..VtT :
            vt.pg_advantages[t] = TdTerm(RhoPgAt(t), t, VsNext(t))

C10_Witness ==
    /\ VtDone
    /\ VtT >= 2
    /\ vt.rho_bar_pg # None
    /\ vt.rho_bar = None
    /\ vt.c_bar = None
    /\ \E t \in 1..(VtT - 1) :
            /\ RhoPgAt(t) # IsWeight(t)
            /\ vt.discounts[t] # Rat(0)
            /\ vt.vs[t + 1] # vt.values[t + 1]
            /\ vt.pg_advantages[t] # Rat(0)


(***************************************************************************)
(* Claims about the rollout worker (specification Spec).  A call returns   *)
(* in the step taken from pc = "finish": the arguments and locals are read *)
(* before the step and the returned value (sample) after it.               *)
(***************************************************************************)
Returning == pc = "finish"
Iterations == timesteps_executed \div num_environments

\* C1: with n_step_adjustment = 1 the returned batch holds one record per
\* environment-step of the call (batch_size = timesteps_executed), grouped
\* by environment in index order: the records of environment 0 in time
\* order, then those of environment 1, ..., each with that environment's
\* own state and reward.
C1_OneRecordPerEnvStep ==
    [][(Returning /\ terminals # Unbound /\ n_step_adjustment = 1) =>
            /\ sample'.kind = "sample"
            /\ sample'.batch_size = timesteps_executed
            /\ Len(sample'.sample_batch.states) = timesteps_executed
            /\ \A i \in Envs : \A j \in 1..Iterations :
                LET k == i * Iterations + j
                IN  /\ sample'.sample_batch.states[k].lz4[1] = i
                    /\ worker_frameskip = 1 =>
                        sample'.sample_batch.rewards[k] = Rat(StepReward(i))
                    /\ (j = 1 /\ calls = 1) =>
                        sample'.sample_batch.states[k] =
                            RayCompress(Preprocess(Obs(i, 0)))]_vars

\* C2: a fresh worker with 1 environment of episode length L and reward 1
\* per step, n_step_adjustment = 1, collecting num_timesteps = 3 * L with
\* break_on_terminal = False, returns 3 * L records and has logged exactly
\* 3 episodes, each of total reward L and length L.
C2_ThreeEpisodes ==
    [][(/\ Returning
        /\ calls = 1
        /\ num_environments = 1
        /\ n_step_adjustment = 1
        /\ worker_frameskip = 1
        /\ max_timesteps_per_episode = 0
        /\ ~break_on_terminal
        /\ num_timesteps = 3 * ep_len[0]) =>
            /\ sample'.kind = "sample"
            /\ sample'.batch_size = 3 * ep_len[0]
            /\ episodes_executed' = 3
            /\ episode_rewards' = <<ep_len[0], ep_len[0], ep_len[0]>>
            /\ episode_timesteps' = <<ep_len[0], ep_len[0], ep_len[0]>>]_vars

\* C3: when the first of two calls met no terminal, the second call starts
\* every environment from the observation the first call left (the
\* environment is not reset) and from the running episode's accumulated
\* reward and step count, so that the episode that spans the two calls is
\* logged with its full length.
C3_Continuation ==
    [][(/\ pc = "outer"
        /\ calls = 2
        /\ timesteps_executed = 0
        /\ 0 < num_timesteps
        /\ sample.kind = "sample"
        /\ episodes_executed = 0
        /\ \A i \in Envs : ~last_terminals[i]) =>
            /\ vector_env' = vector_env
            /\ env_states' = EnvObs(vector_env)
            /\ \A i \in Envs :
                /\ l_episode_rewards'[i] = vector_env[i] * StepReward(i)
                /\ l_episode_timesteps'[i] = vector_env[i] \div worker_frameskip]_vars

\* C4: with break_on_terminal = True no environment step follows the first
\* step in which an environment reports a terminal: the call leaves its
\* loops right after that step, and when fewer than num_timesteps timesteps
\* were executed the returned batch holds fewer than num_timesteps records.
C4_BreakOnTerminal ==
    [][/\ (pc = "inner" /\ break_on_terminal /\ AnyTrue(terminals')) =>
            /\ pc' \in {"outer", "finish"}
            /\ pc' = "outer" => num_timesteps <= timesteps_executed'
       /\ (/\ Returning
           /\ break_on_terminal
           /\ terminals # Unbound
           /\ AnyTrue(terminals)
           /\ timesteps_executed < num_timesteps) =>
            /\ vector_env' = vector_env
            /\ sample'.kind = "sample"
            /\ sample'.batch_size < num_timesteps]_vars

\* C5: a call with num_timesteps <= 0 and break_on_terminal = True still
\* steps the environments, runs until one of them terminates, returns the
\* collected batch and updates the persisted worker state.
C5_NoCountLimit ==
    [][(Returning /\ num_timesteps <= 0 /\ break_on_terminal) =>
            /\ env_frames >= 1
            /\ terminals # Unbound
            /\ AnyTrue(terminals)
            /\ sample'.kind = "sample"
            /\ sample'.batch_size >= 1
            /\ last_terminals' = terminals
            /\ last_states' = env_states
            /\ Len(sample_steps') = Len(sample_steps) + 1]_vars

\* C6: with break_on_terminal = False and num_timesteps > 0 the call
\* reports timesteps_executed = num_timesteps, whatever the number of
\* environments.
C6_ExactTimesteps ==
    [][(Returning /\ ~break_on_terminal /\ 0 < num_timesteps) =>
            /\ sample'.kind = "sample"
            /\ sample'.metrics.timesteps_executed = num_timesteps]_vars

(***************************************************************************)
(* C11, clipping monotonicity (specification VSpec).                       *)
(***************************************************************************)
\* The smaller threshold a the evaluated thresholds are compared with.
LowerThresholds == {<<1, 2>>}

\* a <= b for clip thresholds, None standing for no clipping.
ThresholdLeq(a, b) == b = None \/ (a # None /\ RLeq(a, b))

IsWeights == [t \in 1..VtT |-> IsWeight(t)]

DtVsUnder(rho_bar) ==
    DtVs(Clip(rho_bar, IsWeights), vt.discounts, vt.rewards, vt.values,
         ShiftAppend(vt.values, vt.bootstrapped_v))

PgAdvantagesUnder(rho_bar_pg) ==
    CalcVTraceValues(vt.rho_bar, rho_bar_pg, vt.c_bar, vt.log_is_weights,
                     vt.discounts, vt.rewards, vt.values,
                     vt.bootstrapped_v).pg_advantages

\* C11: for thresholds a <= b of the same kind every weight clipped with a
\* is <= the weight clipped with b, which is <= the unclipped weight;
\* |dt_vs[t]| under rho_bar = a is <= |dt_vs[t]| under rho_bar = b and
\* |pg_advantages[t]| under rho_bar_pg = a is <= |pg_advantages[t]| under
\* rho_bar_pg = b, for every t.
C11_ClippingMonotone ==
    VtDone =>
        \A a \in LowerThresholds :
        \A w_a \in {Clip(a, IsWeights)} :
        \A dt_a \in {DtVsUnder(a)} :
        \A dt_b \in {DtVsUnder(vt.rho_bar)} :
        \A pg_a \in {PgAdvantagesUnder(a)} :
            /\ \A b \in {vt.rho_bar, vt.rho_bar_pg, vt.c_bar} :
                ThresholdLeq(a, b) =>
                    \A w_b \in {Clip(b, IsWeights)} : \A t \in 1..VtT :
                        /\ RLeq(w_a[t], w_b[t])
                        /\ RLeq(w_b[t], IsWeight(t))
            /\ ThresholdLeq(a, vt.rho_bar) =>
                    \A t \in 1..VtT : RLeq(RAbs(dt_a[t]), RAbs(dt_b[t]))
            /\ ThresholdLeq(a, vt.rho_bar_pg) =>
                    \A t \in 1..VtT :
                        RLeq(RAbs(pg_a[t]), RAbs(vt.pg_advantages[t]))

\* Clipping with 1/2, with 1 and not at all give three different weights,
\* temporal differences and advantages at a step.
C11_Witness ==
    /\ VtDone
    /\ vt.rho_bar = Rat(1)
    /\ vt.rho_bar_pg = Rat(1)
    /\ \E t \in 1..VtT :
        /\ vt.log_is_weights[t] = 1
        /\ Clip(<<1, 2>>, IsWeights)[t] # Clip(vt.rho_bar, IsWeights)[t]
        /\ Clip(vt.rho_bar, IsWeights)[t] # IsWeights[t]
        /\ RAbs(DtVsUnder(<<1, 2>>)[t]) # RAbs(DtVsUnder(vt.rho_bar)[t])
        /\ RAbs(PgAdvantagesUnder(<<1, 2>>)[t]) # RAbs(vt.pg_advantages[t])

(***************************************************************************)
(* C12, V-trace input validation (specification CheckSpec).                *)
(***************************************************************************)
SpacesChecked == vt.stage = "checked"
LogIsWeightSpace == vt.in_spaces[1]
DiscountsSpace == vt.in_spaces[2]
RewardsSpace == vt.in_spaces[3]
ValuesSpace == vt.in_spaces[4]
BootstrapValueSpace == vt.in_spaces[5]

\* C12: the five spaces are accepted only if log_is_weights has a batch
\* rank, values, discounts and rewards each have a batch rank, a time rank
\* and the rank of log_is_weights, and bootstrapped_v has a batch rank and
\* no time rank; a bootstrapped_v space with a time rank is rejected with
\* the space-validation error whatever the other four spaces are.
C12_InputSpaces ==
    SpacesChecked =>
        /\ vt.outcome \in {"ok", "RLGraphError"}
        /\ vt.outcome = "ok" =>
            /\ LogIsWeightSpace.has_batch_rank
            /\ \A space \in {ValuesSpace, DiscountsSpace, RewardsSpace} :
                /\ space.has_batch_rank
                /\ space.has_time_rank
                /\ space.rank = LogIsWeightSpace.rank
            /\ BootstrapValueSpace.has_batch_rank
            /\ ~BootstrapValueSpace.has_time_rank
        /\ BootstrapValueSpace.has_time_rank => vt.outcome = "RLGraphError"

\* Only the time rank of bootstrapped_v is at fault.
C12_Witness ==
    /\ SpacesChecked
    /\ vt.outcome = "RLGraphError"
    /\ BootstrapValueSpace.has_time_rank
    /\ BootstrapValueSpace.has_batch_rank
    /\ LogIsWeightSpace.has_batch_rank
    /\ \A space \in {ValuesSpace, DiscountsSpace, RewardsSpace} :
        /\ space.has_batch_rank
        /\ space.has_time_rank
        /\ space.rank = LogIsWeightSpace.rank

(***************************************************************************)
(* Claims about the post-processing (specification PSpec).  Records are    *)
(* numbered from 0 as in the source; record i is element i + 1 of a        *)
(* sequence.                                                               *)
(***************************************************************************)
PsDone == ps.stage = "done"
PsLen == Len(ps.rewards)
PsBatch == ps.result.sample_batch

\* The records i with i <= L - N.
AdjustedRecords == 0..(PsLen - n_step_adjustment)

\* The offset of the first terminal record among i+1..i+N-1, N-1 when there
\* is none.
LastOffset(i) ==
    LET hits == {j \in 1..(n_step_adjustment - 1) : ps.terminals[i + j + 1]}
    IN  IF hits = {} THEN n_step_adjustment - 1
        ELSE CHOOSE j \in hits : \A h \in hits : j <= h

\* The sum over j = from..k of g^j * r[i+j] of the original rewards.
RECURSIVE DiscountedSum(_, _, _)
DiscountedSum(i, from, k) ==
    IF from > k THEN Rat(0)
    ELSE RAdd(RMul(RPow(discount, from), ps.rewards[i + from + 1]),
              DiscountedSum(i, from + 1, k))

\* C13: with n_step_adjustment = N > 1 every record i <= L - N that is not
\* terminal gets the reward sum over j = 0..k of g^j * r[i+j], k being N-1
\* or the offset of the first terminal record among i+1..i+N-1; a terminal
\* record keeps its reward.  For N = 3, g = 0.9 and 10 records of reward 1
\* without terminals the rewards at 0..7 are 2.71 and 8 records are
\* returned.
C13_NStepRewards ==
    (PsDone /\ n_step_adjustment > 1) =>
        /\ \A i \in AdjustedRecords :
            PsBatch.rewards[i + 1] =
                IF ps.terminals[i + 1] THEN ps.rewards[i + 1]
                ELSE DiscountedSum(i, 0, LastOffset(i))
        /\ (/\ n_step_adjustment = 3
            /\ PsLen = 10
            /\ \A k \in 1..PsLen : ~ps.terminals[k] /\ ps.rewards[k] = Rat(1)) =>
                /\ discount = <<9, 10>>
                /\ ps.result.batch_size = 8
                /\ Len(PsBatch.rewards) = 8
                /\ \A i \in 0..7 : PsBatch.rewards[i + 1] = <<271, 100>>

\* Ten reward-1 records without terminals, adjusted with N = 3.
C13_Witness ==
    /\ PsDone
    /\ n_step_adjustment = 3
    /\ PsLen = 10
    /\ \A k \in 1..PsLen : ~ps.terminals[k] /\ ps.rewards[k] = Rat(1)
    /\ PsBatch.rewards[8] = <<271, 100>>

\* The record i is not terminal and neither is any of the N-1 records after
\* it.
NoTerminalAhead(i) ==
    \A j \in 0..(n_step_adjustment - 1) : ~ps.terminals[i + j + 1]

\* The state observed N steps after record i's: the state of record i + N,
\* which for the last records is the next state of the last record.
StateAfter(i, n) ==
    IF i + n < PsLen THEN ps.states[i + n + 1] ELSE ps.next_states[i + n]

\* C14: with n_step_adjustment = N > 1 every record i <= L - N that is not
\* terminal and has no terminal among its next N-1 records gets the state
\* recorded N steps later (the original state at position i + N); a
\* terminal record keeps its state.
C14_NStepStates ==
    (PsDone /\ n_step_adjustment > 1) =>
        \A i \in AdjustedRecords :
            /\ NoTerminalAhead(i) =>
                PsBatch.states[i + 1] = RayCompress(StateAfter(i, n_step_adjustment))
            /\ ps.terminals[i + 1] =>
                PsBatch.states[i + 1] = RayCompress(ps.states[i + 1])

Max0(n) == IF n > 0 THEN n ELSE 0

\* C15: with n_step_adjustment = N > 1 and L >= 0 records the trailing N-1
\* records are removed from each of the five arrays, all records when
\* L < N-1, so the arrays keep equal length and batch_size is
\* max(0, L - (N-1)); with N = 1 nothing is removed.
C15_Truncation ==
    PsDone =>
        LET kept == IF n_step_adjustment > 1
                    THEN Max0(PsLen - (n_step_adjustment - 1))
                    ELSE PsLen
        IN  /\ ps.result.batch_size = kept
            /\ Len(PsBatch.states) = kept
            /\ PsBatch.actions = SubSeq(ps.actions, 1, kept)
            /\ Len(PsBatch.rewards) = kept
            /\ PsBatch.terminals = SubSeq(ps.terminals, 1, kept)
            /\ \A k \in 1..Len(ps.result.update_calls) :
                ps.result.update_calls[k].next_states =
                    SubSeq(ps.next_states, 1, kept)

(***************************************************************************)
(* Further claims about the rollout worker (specification Spec).           *)
(***************************************************************************)
\* The post-processing of the records the call has collected.
Processed == ProcessSample(MergeBatch(EmptyBatch, 0))

\* C16: when worker_computes_weights is true each collect call makes
\* exactly one agent.update call, on the adjusted and truncated batch with
\* all importance weights 1, and the returned weight of record i is
\* |loss_per_item[i]| + SMALL_NUMBER > 0; when it is false agent.update is
\* never called and every returned weight is 1.
C16_ImportanceWeights ==
    [][/\ ~Returning => agent_updates' = agent_updates
       /\ Returning =>
            /\ sample'.kind = "sample"
            /\ agent_updates' =
                agent_updates + (IF worker_computes_weights THEN 1 ELSE 0)
            /\ Len(sample'.sample_batch.importance_weights) = sample'.batch_size
            /\ \A k \in 1..sample'.batch_size :
                /\ sample'.sample_batch.importance_weights[k] =
                    IF worker_computes_weights
                    THEN RAdd(RAbs(LossPerItem(sample'.sample_batch.rewards[k])),
                              SMALL_NUMBER)
                    ELSE Rat(1)
                /\ ~RLeq(sample'.sample_batch.importance_weights[k], Rat(0))
            /\ worker_computes_weights =>
                /\ Len(Processed.update_calls) = 1
                /\ Processed.update_calls[1].rewards = sample'.sample_batch.rewards
                /\ Processed.update_calls[1].actions = sample'.sample_batch.actions
                /\ \A k \in 1..sample'.batch_size :
                    Processed.update_calls[1].importance_weights[k] = Rat(1)]_vars

BatchKeys == {"states", "actions", "rewards", "terminals", "importance_weights"}

\* C17: every collect call returns a batch with exactly the keys states,
\* actions, rewards, terminals and importance_weights, all five of the same
\* length, and batch_size is that length; execute_and_get_with_count
\* returns the sample and, as second value, that sample's batch_size.
C17_OutputShape ==
    [][Returning =>
            /\ sample'.kind = "sample"
            /\ DOMAIN sample'.sample_batch = BatchKeys
            /\ \A key \in BatchKeys :
                Len(sample'.sample_batch[key]) = sample'.batch_size
            /\ ExecuteAndGetWithCount(sample')[1] = sample'
            /\ ExecuteAndGetWithCount(sample')[2] =
                Len(sample'.sample_batch.rewards)]_vars

\* The episode of environment i concluded in the previous pass of the same
\* call and no reset of the environment has followed.
ConcludedBefore(i) ==
    /\ l_episode_timesteps[i] > 0
    /\ l_episodes_executed[i] > 0
    /\ Concluded(terminals, l_episode_timesteps, i)

\* C18: when an environment's episode concludes during a call (terminal, or
\* step count at max_timesteps_per_episode > 0) and the call continues, the
\* environment is reset and its running episode reward and step count are
\* zeroed before its next step is recorded: that step is taken from the
\* reset observation and is the first step of the new episode.
C18_ResetWithinCall ==
    [][(pc = "inner" /\ timesteps_executed > 0) =>
            \A i \in Envs :
                ConcludedBefore(i) =>
                    /\ env_states[i] = Obs(i, 0)
                    /\ l_episode_timesteps'[i] = 1
                    /\ l_episode_rewards'[i] <= worker_frameskip * StepReward(i)]_vars

\* The environments i, i+1, ... that report a terminal, in index order.
RECURSIVE TerminalEnvs(_, _)
TerminalEnvs(terms, i) ==
    IF i >= num_environments THEN <<>>
    ELSE (IF terms[i] THEN <<i>> ELSE <<>>) \o TerminalEnvs(terms, i + 1)

\* C19: at every step at which environment i reports a terminal or its
\* episode step count reaches max_timesteps_per_episode (> 0) exactly one
\* entry is appended to episode_rewards and episode_timesteps, holding the
\* reward sum and the step count of that episode only, and
\* episodes_executed grows by one; at other steps nothing is appended.
\* An episode's step count is never above the cap, and without cap and
\* frameskip every episode of environment i has ep_len[i] steps.
C19_EpisodeLogging ==
    [][pc = "inner" =>
        LET old == Len(episode_timesteps)
            new == Len(episode_timesteps') - old
            ended == TerminalEnvs(terminals', 0)
        IN  /\ Len(episode_rewards') = Len(episode_timesteps')
            /\ SubSeq(episode_timesteps', 1, old) = episode_timesteps
            /\ SubSeq(episode_rewards', 1, old) = episode_rewards
            /\ episodes_executed' = episodes_executed + new
            /\ new <= num_environments
            /\ \A k \in 1..new :
                /\ episode_timesteps'[old + k] >= 1
                /\ 0 < max_timesteps_per_episode =>
                    episode_timesteps'[old + k] <= max_timesteps_per_episode
            /\ max_timesteps_per_episode = 0 =>
                /\ new = Len(ended)
                /\ worker_frameskip = 1 =>
                    \A k \in 1..new :
                        /\ episode_timesteps'[old + k] = ep_len[ended[k]]
                        /\ episode_rewards'[old + k] =
                            ep_len[ended[k]] * StepReward(ended[k])]_vars

\* C20: at the start of a collect call exactly the environments whose last
\* recorded step of the previous call was terminal are reset and start with
\* running episode reward 0 and step count 0; every other environment is
\* not reset and starts from last_states[i] and last_ep_rewards[i].  On the
\* first call no environment is reset.
C20_ResetAtCallStart ==
    [][(pc = "outer" /\ timesteps_executed = 0) =>
            /\ \A i \in Envs :
                IF last_terminals[i]
                THEN /\ vector_env'[i] = 0
                     /\ env_states' # Unbound
                     /\ env_states'[i] = Obs(i, 0)
                     /\ l_episode_rewards'[i] = 0
                     /\ l_episode_timesteps'[i] = 0
                ELSE /\ vector_env'[i] = vector_env[i]
                     /\ env_states' # Unbound =>
                        /\ env_states'[i] = last_states[i]
                        /\ l_episode_rewards'[i] = last_ep_rewards[i]
            /\ calls = 1 => vector_env' = vector_env]_vars

(***************************************************************************)
(* Claims about the worker's queries and counters (specification Spec).    *)
(* A query is answered between collect calls, when pc = "idle".            *)
(***************************************************************************)
\* C21: for a worker whose constructor succeeded get_constructor_success
\* returns true in every reachable state: right after construction and
\* after any sequence of collect calls, also calls that ended on a terminal
\* step of environment 0.
C21_HealthCheck ==
    pc = "idle" => GetConstructorSuccess = TRUE

\* The environments the reset pass resets.
NeedReset == {i \in Envs : last_terminals[i] \/ l_episodes_executed[i] > 0}

\* C24: in the reset pass at the start of a collect call, when k >= 1
\* environments need a reset, agent.reset() is called exactly once in the
\* pass (for the first of them), not once for each of the k environments;
\* when none needs a reset it is not called.
C24_AgentResetOnce ==
    [][(pc = "outer" /\ timesteps_executed < num_timesteps) =>
            /\ \A i \in NeedReset : vector_env'[i] = 0
            /\ agent_resets' =
                agent_resets + (IF NeedReset # {} THEN 1 ELSE 0)]_vars

\* The number of steps after which environment i next reports a terminal.
StepsToTerminal(i) ==
    IF vector_env[i] >= ep_len[i] THEN ep_len[i] ELSE ep_len[i] - vector_env[i]

\* The repeats of one action: worker_frameskip, or the index of the first
\* step in which an environment reports a terminal when that comes earlier.
FramesOfAction ==
    LET S == {worker_frameskip} \cup {StepsToTerminal(i) : i \in Envs}
    IN  CHOOSE k \in S : \A h \in S : k <= h

\* The element the step d -> d' of a per-environment record dict appended
\* for environment i.
RecordedFor(d, e, i) ==
    e[env_ids[i]][Len(d[env_ids[i]]) + 1
                    + Cardinality({j \in Envs : j < i /\ env_ids[j] = env_ids[i]})]

\* C25: for each action the environments are stepped k times, k being
\* worker_frameskip if no step reports a terminal and otherwise the index of
\* the first step in which any environment reports a terminal (1 <= k <=
\* worker_frameskip); the reward recorded for environment i is the sum of
\* environment i's own step rewards over those k steps and its recorded
\* terminal flag is its flag from the k-th step.
C25_Frameskip ==
    [][pc = "inner" =>
        \A k \in {FramesOfAction} :
            /\ 1 <= k /\ k <= worker_frameskip
            /\ env_frames' = env_frames + k
            /\ \A i \in Envs :
                /\ vector_env'[i] =
                    (IF vector_env[i] >= ep_len[i] THEN 0 ELSE vector_env[i]) + k
                /\ RecordedFor(sample_terminals, sample_terminals', i) =
                    (vector_env'[i] >= ep_len[i])
                /\ RecordedFor(sample_rewards, sample_rewards', i) =
                    k * StepReward(i)]_vars

\* C26: after any sequence of collect calls, with any mix of
\* break_on_terminal values, total_worker_steps (reported as worker_steps)
\* equals the sum of the timesteps_executed values those calls reported.
C26_LifetimeSteps ==
    pc = "idle" => total_worker_steps = reported

\* C28: get_workload_statistics returns a statistics mapping in every
\* reachable worker state, also right after construction (no collect call
\* yet) and after collect calls in which no episode has concluded.
C28_Statistics ==
    pc = "idle" => GetWorkloadStatistics.kind = "stats"

(***************************************************************************)
(* C27, episode boundaries in V-trace (specification VSpec).               *)
(***************************************************************************)
\* The inputs a second run has at the times after t, and its bootstrapped_v.
LaterInputs ==
    {[log_is_weight |-> 1, discount |-> <<1, 2>>, reward |-> Rat(5),
      value |-> Rat(0 - 3), bootstrapped_v |-> Rat(7)]}

\* x up to time t, then v.
AgreeUpTo(x, t, v) == [s \in 1..Len(x) |-> IF s <= t THEN x[s] ELSE v]

\* The outputs of the run that agrees with the evaluated one on all inputs
\* at times <= t and has the inputs f after t.
SecondRun(t, f) ==
    CalcVTraceValues(vt.rho_bar, vt.rho_bar_pg, vt.c_bar,
                     AgreeUpTo(vt.log_is_weights, t, f.log_is_weight),
                     AgreeUpTo(vt.discounts, t, f.discount),
                     AgreeUpTo(vt.rewards, t, f.reward),
                     AgreeUpTo(vt.values, t, f.value),
                     f.bootstrapped_v)

\* C27: if discounts[t] = 0 then vs[t] = values[t] + rho_t[t] * (rewards[t]
\* - values[t]) and pg_advantages[t] = rho_t_pg[t] * (rewards[t] -
\* values[t]); two runs that agree on all inputs at times <= t produce the
\* same vs[s] and pg_advantages[s] for every s <= t, whatever the inputs at
\* times > t and bootstrapped_v are.
C27_EpisodeBoundary ==
    VtDone =>
        \A t \in 1..VtT :
            vt.discounts[t] = Rat(0) =>
                /\ vt.vs[t] =
                    RAdd(vt.values[t],
                         RMul(RhoAt(t), RSub(vt.rewards[t], vt.values[t])))
                /\ vt.pg_advantages[t] =
                    RMul(RhoPgAt(t), RSub(vt.rewards[t], vt.values[t]))
                /\ \A f \in LaterInputs : \A other \in {SecondRun(t, f)} :
                    \A s \in 1..t :
                        /\ other.vs[s] = vt.vs[s]
                        /\ other.pg_advantages[s] = vt.pg_advantages[s]

\* A zero discount at t < T-1 with a step before it that reaches t, and a
\* second run whose outputs after t differ.
C27_Witness ==
    /\ VtDone
    /\ VtT >= 3
    /\ vt.discounts[1] # Rat(0)
    /\ vt.discounts[2] = Rat(0)
    /\ vt.discounts[3] # Rat(0)
    /\ vt.vs[1] # RAdd(vt.values[1], DtVsAt(1))
    /\ vt.vs[2] # vt.values[2]
    /\ \E f \in LaterInputs :
        /\ SecondRun(2, f).vs[3] # vt.vs[3]
        /\ SecondRun(2, f).pg_advantages[3] # vt.pg_advantages[3]

(***************************************************************************)
(* Claims about the set-up functions (specification SetupSpec).            *)
(***************************************************************************)
CfDone(fn) == cf.stage = "done" /\ cf.fn = fn

\* C22: get_optimizer_from_device_strategy returns a plain optimizer for
\* device_strategy 'default' or 'custom', an optimizer wrapped in a
\* multi-GPU sync optimizer for 'multi_gpu_sync', and for every other
\* device_strategy raises RLGraphError without building any optimizer.
C22_DeviceStrategy ==
    CfDone("get_optimizer_from_device_strategy") =>
        IF cf.device_strategy \in {"default", "custom"}
        THEN /\ cf.outcome.kind = "return"
             /\ cf.outcome.value.class = "Optimizer"
             /\ cf.outcome.value.spec = cf.optimizer_spec
        ELSE IF cf.device_strategy = "multi_gpu_sync"
        THEN /\ cf.outcome.kind = "return"
             /\ cf.outcome.value.class = "MultiGpuSyncOptimizer"
             /\ cf.outcome.value.local_optimizer.class = "Optimizer"
             /\ cf.outcome.value.local_optimizer.spec = cf.optimizer_spec
        ELSE /\ cf.outcome.kind = "error"
             /\ cf.outcome.error = "RLGraphError"
             /\ cf.optimizers_built = 0

\* A strategy that differs from an allowed one by its case only is refused.
C22_Witness ==
    /\ CfDone("get_optimizer_from_device_strategy")
    /\ cf.device_strategy = "Default"
    /\ cf.outcome.kind = "error"
    /\ cf.outcome.error = "RLGraphError"
    /\ cf.optimizers_built = 0

\* The two intervals after the defaults are merged, per the claim.
GivenOr(key, default) ==
    IF cf.update_spec # PyNone /\ key \in DOMAIN cf.update_spec.items
    THEN cf.update_spec.items[key]
    ELSE default
UpdateInterval == GivenOr("update_interval", 4)
SyncInterval == GivenOr("sync_interval", 128)

\* s is an integer multiple of u.
IsMultipleOf(s, u) == \E k \in 0..s : s = k * u

\* C29: for every update_spec, after the defaults are merged
\* (update_interval 4, sync_interval 128 when not given), the call returns
\* the merged spec if sync_interval is an integer multiple of
\* update_interval and otherwise raises RLGraphError; no other outcome
\* occurs, also when only one of the two values is overridden.
C29_UpdateSpec ==
    CfDone("parse_update_spec") =>
        IF IsMultipleOf(SyncInterval, UpdateInterval)
        THEN /\ cf.outcome.kind = "return"
             /\ cf.outcome.value["update_interval"] = UpdateInterval
             /\ cf.outcome.value["sync_interval"] = SyncInterval
             /\ cf.outcome.value["batch_size"] = 64
        ELSE /\ cf.outcome.kind = "error"
             /\ cf.outcome.error = "RLGraphError"

\* C30: the constructor of NNOutputCleanup validates the target space in
\* order: it raises YARLError if target_space is not an IntBox, else if the
\* space has no global bounds, else if its global lower bound is not 0;
\* only when all three checks pass is the component built, with
\* num_categories_per_dim equal to the global upper bound.
C30_TargetSpace ==
    CfDone("NNOutputCleanup") =>
        LET space == cf.target_space
            error(message) ==
                /\ cf.outcome.kind = "error"
                /\ cf.outcome.error = "YARLError"
                /\ cf.outcome.message = message
        IN  /\ IF space.class # "IntBox"
               THEN error(MustBeIntBox)
               ELSE IF space.global_bounds = GlobalBoundsFalse
               THEN error(MustNotHaveIndividualBounds)
               ELSE IF space.global_bounds[1] # 0
               THEN error(MustHaveLowerBoundZero)
               ELSE /\ cf.outcome.kind = "error" =>
                        cf.outcome.error # "YARLError"
                    /\ cf.outcome.kind = "return" =>
                        /\ cf.outcome.value.target_space = space
                        /\ cf.outcome.value.num_categories_per_dim =
                            space.global_bounds[2]
            /\ cf.outcome.kind = "return" =>
                /\ space.class = "IntBox"
                /\ space.global_bounds # GlobalBoundsFalse
                /\ space.global_bounds[1] = 0

\* An IntBox with the global bounds (0, 3) is built with 3 categories.
C30_Witness ==
    /\ CfDone("NNOutputCleanup")
    /\ cf.target_space.class = "IntBox"
    /\ cf.target_space.global_bounds = <<0, 3>>
    /\ cf.outcome.kind = "return"
    /\ cf.outcome.value.num_categories_per_dim = 3

=============================================================================
